---------------------------- MODULE Spec2Model ----------------------------
(***************************************************************************)
(* Black-Scholes pricer: OptionInputs validation, the pricing engine       *)
(* (BlackScholesCalculator) and the grid generator (HeatmapService).       *)
(*                                                                         *)
(* Real numbers (Python floats / numpy float64) are modelled as fixed-     *)
(* point integers with SCALE units per 1.0, i.e. six decimal digits, two   *)
(* more than the four decimals the program rounds its results to.  Every   *)
(* arithmetic operator rounds to the nearest unit, as a float operation    *)
(* rounds to the nearest representable value.                              *)
(***************************************************************************)
EXTENDS Integers, Sequences, FiniteSets, TLC

(***************************************************************************)
(* Fixed-point arithmetic                                                  *)
(***************************************************************************)
LIMB == 10 ^ 3
SCALE == LIMB * LIMB

Abs(x) == IF x < 0 THEN -x ELSE x
Sgn(x) == IF x < 0 THEN -1 ELSE 1

\* |a| * |b| / SCALE rounded to nearest, computed limb-wise so that no
\* intermediate product leaves the 32-bit range.
MulAbs(a, b) ==
    LET a1 == a \div LIMB
        a0 == a % LIMB
        b1 == b \div LIMB
        b0 == b % LIMB
        mid == a1 * b0 + a0 * b1
    IN  a1 * b1 + (mid \div LIMB)
          + (((mid % LIMB) * LIMB + a0 * b0 + (SCALE \div 2)) \div SCALE)

\* float product a * b
Mul(a, b) == Sgn(a) * Sgn(b) * MulAbs(Abs(a), Abs(b))

\* decimal long division: the digits of (r / b) after the first `n` ones
RECURSIVE DivDigits(_, _, _, _)
DivDigits(r, b, n, acc) ==
    IF n = 0
    THEN IF 2 * r >= b THEN acc + 1 ELSE acc
    ELSE DivDigits((r * 10) % b, b, n - 1, acc * 10 + ((r * 10) \div b))

\* float quotient a / b  (b # 0)
Div(a, b) ==
    LET x == Abs(a)
        y == Abs(b)
    IN  Sgn(a) * Sgn(b) * DivDigits(x % y, y, 6, x \div y)

\* np.sqrt(x), x >= 0: Newton iteration to the fixed point
RECURSIVE SqrtIter(_, _, _)
SqrtIter(x, r, n) ==
    LET nxt == (r + Div(x, r)) \div 2
    IN  IF n = 0 \/ Abs(nxt - r) <= 0 THEN nxt ELSE SqrtIter(x, nxt, n - 1)

np_sqrt(x) == IF x <= 0 THEN 0 ELSE SqrtIter(x, (x + SCALE) \div 2, 40)

\* ln 2 in fixed point
LnTwo == 693 * LIMB + 147

\* sum_{k odd, k <= 15} z^k / k   (atanh series), zk = z^k
RECURSIVE AtanhSeries(_, _, _, _)
AtanhSeries(zk, z2, k, acc) ==
    IF k > 15 \/ zk = 0 THEN acc
    ELSE AtanhSeries(Mul(zk, z2), z2, k + 2, acc + (zk \div k))

\* ln of a value in [1, 2): 2 * atanh((x - 1) / (x + 1))
LnReduced(x) ==
    LET z == Div(x - SCALE, x + SCALE)
    IN  2 * AtanhSeries(z, Mul(z, z), 1, 0)

\* np.log(x), x > 0: x = m * 2^k with m in [1, 2)
RECURSIVE np_log_red(_, _)
np_log_red(x, k) ==
    IF x >= 2 * SCALE THEN np_log_red((x + 1) \div 2, k + 1)
    ELSE IF x < SCALE THEN np_log_red(x * 2, k - 1)
    ELSE k * LnTwo + LnReduced(x)

np_log(x) == np_log_red(x, 0)

\* sum_{n <= 12} f^n / n!   (Taylor series), term = f^n / n!
RECURSIVE ExpSeries(_, _, _, _)
ExpSeries(f, term, n, acc) ==
    IF n > 12 \/ term = 0 THEN acc
    ELSE ExpSeries(f, Mul(term, f) \div (n + 1), n + 1, acc + term)

RECURSIVE Pow2(_)
Pow2(k) == IF k = 0 THEN 1 ELSE 2 * Pow2(k - 1)

\* floor division for possibly negative numerators
FloorDiv(a, b) == IF a >= 0 THEN a \div b ELSE -((-a + b - 1) \div b)

\* np.exp(x) = 2^k * exp(f), f = x - k ln 2 in [0, ln 2)
np_exp(x) ==
    LET k == FloorDiv(x, LnTwo)
        f == x - k * LnTwo
        e == ExpSeries(f, SCALE, 0, 0)
    IN  IF k >= 0 THEN e * Pow2(k)
        ELSE IF k < -30 THEN 0
        ELSE (e + Pow2(-k - 1)) \div Pow2(-k)

\* scipy.stats.norm.pdf(x) = exp(-x^2 / 2) / sqrt(2 pi)
norm_pdf(x) ==
    LET ax == Abs(x)
    IN  IF ax > 8 * SCALE THEN 0
        ELSE Mul(398942, np_exp(-(Mul(ax, ax) \div 2)))

\* upper tail Q(x) = 1 - N(x) for x >= 0 (Abramowitz-Stegun 26.2.17)
NormTail(x) ==
    LET t  == Div(SCALE, SCALE + Mul(231642, x))
        p5 == 1330274
        p4 == Mul(p5, t) - 1821256
        p3 == Mul(p4, t) + 1781478
        p2 == Mul(p3, t) - 356564
        p1 == Mul(p2, t) + 319382
    IN  Mul(norm_pdf(x), Mul(p1, t))

\* scipy.stats.norm.cdf(x)
norm_cdf(x) == IF x >= 0 THEN SCALE - NormTail(x) ELSE NormTail(-x)

\* round(x, 4): to the nearest multiple of 10^-4, ties to even
round2(x) ==
    LET u == SCALE \div (10 ^ 2)
        a == Abs(x)
        q == a \div u
        r == a % u
        n == IF 2 * r > u \/ (2 * r = u /\ q % 2 = 1) THEN q + 1 ELSE q
    IN  Sgn(x) * n * u

round4(x) ==
    LET u == SCALE \div (10 ^ 4)
        a == Abs(x)
        q == a \div u
        r == a % u
        n == IF 2 * r > u \/ (2 * r = u /\ q % 2 = 1) THEN q + 1 ELSE q
    IN  Sgn(x) * n * u

(***************************************************************************)
(* Bounds and input domains                                                *)
(***************************************************************************)
\* largest step count a caller passes for either axis
MaxSteps == 3

None == "None"

\* Optional[int] = None of the database models
NoId == 0

\* n / 1000 as a fixed-point value
Milli(n) == n * LIMB

\* values a caller may pass to OptionInputs(...), valid and invalid ones
StockPriceArgs == {Milli(-10000), 0, Milli(100000)}
StrikePriceArgs == {0, Milli(100000), Milli(110000)}
TimeArgs == {0, Milli(250), Milli(1000)}
VolatilityArgs == {Milli(-100), 0, Milli(250)}
RateArgs == {Milli(-10), Milli(50)}
DividendArgs == {Milli(-10), 0, Milli(20)}

\* range percentages passed to create_heatmap_params_from_inputs
SpotRangeArgs == {Milli(100), Milli(1500), Milli(-1500)}
VolRangeArgs == {Milli(200), Milli(1500)}
StepArgs == -1 .. MaxSteps

\* bounds passed to HeatmapParameters(...) directly
DirectBounds ==
    { [min_spot |-> Milli(95000), max_spot |-> Milli(105000),
       min_vol |-> Milli(200), max_vol |-> Milli(300)] }

(***************************************************************************)
(* src/models/black_scholes.py                                             *)
(***************************************************************************)
OptionInputsArgs ==
    [stock_price : StockPriceArgs, strike_price : StrikePriceArgs,
     time_to_expiry : TimeArgs, volatility : VolatilityArgs,
     risk_free_rate : RateArgs, dividend_yield : DividendArgs]

\* __post_init__ without its stock price check
post_init_no_spot(self) ==
    IF self.strike_price <= 0 THEN "ValueError"
    ELSE IF self.time_to_expiry <= 0 THEN "ValueError"
    ELSE IF self.volatility <= 0 THEN "ValueError"
    ELSE IF self.dividend_yield < 0 THEN "ValueError"
    ELSE None

\* OptionInputs.__post_init__: the error raised, or None
post_init(self) ==
    IF self.stock_price <= 0 THEN "ValueError"
    ELSE IF self.strike_price <= 0 THEN "ValueError"
    ELSE IF self.time_to_expiry <= 0 THEN "ValueError"
    ELSE IF self.volatility <= 0 THEN "ValueError"
    ELSE IF self.dividend_yield < 0 THEN "ValueError"
    ELSE None

\* OptionInputs(stock_price=spot, strike_price=base.strike_price, ...)
OptionInputs(S, K, T, vol, r, q) ==
    [stock_price |-> S, strike_price |-> K, time_to_expiry |-> T,
     volatility |-> vol, risk_free_rate |-> r, dividend_yield |-> q]

\* d1 as in the docstring of calculate, without the dividend yield
calc_d1_no_q(S, K, T, vol, r, q) ==
    Div(np_log(Div(S, K)) + Mul(r + Mul(SCALE \div 2, Mul(vol, vol)), T),
        Mul(vol, np_sqrt(T)))

\* d1 = (np.log(S / K) + (r - q + 0.5 * vol**2) * T) / (vol * np.sqrt(T))
calc_d1(S, K, T, vol, r, q) ==
    Div(np_log(Div(S, K)) + Mul(r - q + Mul(SCALE \div 2, Mul(vol, vol)), T),
        Mul(vol, np_sqrt(T)))

\* d2 = d1 - vol * np.sqrt(T)
calc_d2_plus(d1, T, vol) == d1 + Mul(vol, np_sqrt(T))

calc_d2(d1, T, vol) == d1 - Mul(vol, np_sqrt(T))

calculate_dividend_as_growth(inputs) ==
    LET S == inputs.stock_price
        K == inputs.strike_price
        T == inputs.time_to_expiry
        vol == inputs.volatility
        r == inputs.risk_free_rate
        q == - inputs.dividend_yield
    IN  IF K = 0
        THEN [call_price |-> 0, put_price |-> 0, nan |-> FALSE,
              raised |-> "ZeroDivisionError"]
        ELSE IF S <= 0 \/ K < 0 \/ Mul(vol, np_sqrt(T)) = 0
        THEN [call_price |-> 0, put_price |-> 0, nan |-> TRUE, raised |-> None]
        ELSE
        LET d1 == calc_d1(S, K, T, vol, r, q)
            d2 == calc_d2(d1, T, vol)
            call_price == Mul(Mul(S, np_exp(Mul(-q, T))), norm_cdf(d1))
                            - Mul(Mul(K, np_exp(Mul(-r, T))), norm_cdf(d2))
            put_price == Mul(Mul(K, np_exp(Mul(-r, T))), norm_cdf(-d2))
                            - Mul(Mul(S, np_exp(Mul(-q, T))), norm_cdf(-d1))
        IN  [call_price |-> round4(call_price),
             put_price |-> round4(put_price),
             nan |-> FALSE, raised |-> None]

\* BlackScholesCalculator.calculate.  The method checks nothing itself: on
\* an object outside the validity invariant S / K raises ZeroDivisionError
\* for K = 0, and a non-positive S, T or vol makes numpy return nan or inf
\* (nan |-> TRUE), with no exception.
calculate(inputs) ==
    LET S == inputs.stock_price
        K == inputs.strike_price
        T == inputs.time_to_expiry
        vol == inputs.volatility
        r == inputs.risk_free_rate
        q == inputs.dividend_yield
    IN  IF K = 0
        THEN [call_price |-> 0, put_price |-> 0, nan |-> FALSE,
              raised |-> "ZeroDivisionError"]
        ELSE IF S <= 0 \/ K < 0 \/ Mul(vol, np_sqrt(T)) = 0
        THEN [call_price |-> 0, put_price |-> 0, nan |-> TRUE, raised |-> None]
        ELSE
        LET d1 == calc_d1(S, K, T, vol, r, q)
            d2 == calc_d2(d1, T, vol)
            call_price == Mul(Mul(S, np_exp(Mul(-q, T))), norm_cdf(d1))
                            - Mul(Mul(K, np_exp(Mul(-r, T))), norm_cdf(d2))
            put_price == Mul(Mul(K, np_exp(Mul(-r, T))), norm_cdf(-d2))
                            - Mul(Mul(S, np_exp(Mul(-q, T))), norm_cdf(-d1))
        IN  [call_price |-> round4(call_price),
             put_price |-> round4(put_price),
             nan |-> FALSE, raised |-> None]

\* the caller holds no OptionInputs object
NoInputs == OptionInputs(0, 0, 0, 0, 0, 0)

(***************************************************************************)
(* src/database/models.py                                                  *)
(***************************************************************************)
CalculationOutput(vol_shock, spot_shock, price, is_call) ==
    [output_id |-> NoId, calculation_id |-> NoId,
     volatility_shock |-> vol_shock, stock_price_shock |-> spot_shock,
     option_price |-> price, is_call |-> is_call]

(***************************************************************************)
(* src/services/heatmap_service.py                                         *)
(***************************************************************************)
\* floor of the lowest grid volatility, 0.005
VolFloor == 5000

HeatmapParameters(min_spot, max_spot, min_vol, max_vol, spot_steps, vol_steps) ==
    [min_spot |-> min_spot, max_spot |-> max_spot,
     min_vol |-> min_vol, max_vol |-> max_vol,
     spot_steps |-> spot_steps, vol_steps |-> vol_steps]

\* the caller holds no HeatmapParameters object
NoParams == HeatmapParameters(0, 0, 0, 0, 0, 0)

Max(a, b) == IF a >= b THEN a ELSE b

\* create_heatmap_params_from_inputs without the volatility floor
create_heatmap_params_no_floor(base_inputs, spot_range_pct, vol_range_pct, steps) ==
    HeatmapParameters(Mul(base_inputs.stock_price, SCALE - spot_range_pct),
                      Mul(base_inputs.stock_price, SCALE + spot_range_pct),
                      Mul(base_inputs.volatility, SCALE - vol_range_pct),
                      Mul(base_inputs.volatility, SCALE + vol_range_pct),
                      steps, steps)

\* HeatmapService.create_heatmap_params_from_inputs
create_heatmap_params_from_inputs(base_inputs, spot_range_pct, vol_range_pct, steps) ==
    LET min_spot == Mul(base_inputs.stock_price, SCALE - spot_range_pct)
        max_spot == Mul(base_inputs.stock_price, SCALE + spot_range_pct)
        min_vol == Mul(base_inputs.volatility, SCALE - vol_range_pct)
        max_vol == Mul(base_inputs.volatility, SCALE + vol_range_pct)
    IN  HeatmapParameters(min_spot, max_spot, Max(min_vol, VolFloor), max_vol,
                          steps, steps)

\* delta / div for an integer div > 0, rounded to nearest
StepOf(delta, div) == Sgn(delta) * ((2 * Abs(delta) + div) \div (2 * div))

\* np.linspace with endpoint=False: the stop value is not sampled
linspace_open(start, stop, num) ==
    [k \in 1 .. num |-> start + (k - 1) * StepOf(stop - start, num)]

\* np.linspace(start, stop, num) for num >= 0 (a negative num raises
\* ValueError): num samples start + k * step, the last one set to stop
\* when num > 1
linspace(start, stop, num) ==
    LET div == num - 1
        step == IF div > 0 THEN StepOf(stop - start, div) ELSE 0
    IN  [k \in 1 .. num |->
            IF num > 1 /\ k = num THEN stop ELSE start + (k - 1) * step]

\* np.zeros with the two dimensions exchanged
zeros_one_more_row(rows, cols) == [a \in 1 .. rows + 1 |-> [b \in 1 .. cols |-> 0]]

\* np.zeros((rows, cols))
zeros(rows, cols) == [a \in 1 .. rows |-> [b \in 1 .. cols |-> 0]]

\* the absolute volatility in place of the shock
vol_shock_absolute(vol, base_inputs) == vol

\* vol_shock = vol - base_inputs.volatility
vol_shock_of(vol, base_inputs) == vol - base_inputs.volatility

\* spot_shock = spot - base_inputs.stock_price
spot_shock_of(spot, base_inputs) == spot - base_inputs.stock_price

\* call_output = CalculationOutput(...)
call_output(vol_shock, spot_shock, call_price, put_price) ==
    CalculationOutput(vol_shock, spot_shock, call_price, TRUE)

\* put_output = CalculationOutput(...)
put_output(vol_shock, spot_shock, call_price, put_price) ==
    CalculationOutput(vol_shock, spot_shock, call_price, TRUE)

\* the index pair (i, j) the k-th iteration of the nested loop visits
LoopI(k, n) == ((k - 1) \div n) + 1
LoopJ(k, n) == ((k - 1) % n) + 1

\* the loop with puts.append(put_output) left outside the inner loop: one put
\* row per volatility, that of the last spot
output_rows_put_per_vol(base_inputs, data) ==
    LET n == Len(data.spot_prices)
        total == Len(data.vols) * n
        vs(k) == vol_shock_of(data.vols[LoopI(k, n)], base_inputs)
        ss(k) == spot_shock_of(data.spot_prices[LoopJ(k, n)], base_inputs)
        cp(k) == data.call_prices[LoopI(k, n)][LoopJ(k, n)]
        pp(k) == data.put_prices[LoopI(k, n)][LoopJ(k, n)]
    IN  [calls |-> [k \in 1 .. total |-> call_output(vs(k), ss(k), cp(k), pp(k))],
         puts |-> [a \in 1 .. (IF n = 0 THEN 0 ELSE Len(data.vols)) |->
                     put_output(vs(a * n), ss(a * n), cp(a * n), pp(a * n))]]

\* the loop of generate_outputs_for_database over heatmap_data: the (calls,
\* puts) pair it returns, one append to each list per iteration
output_rows(base_inputs, data) ==
    LET n == Len(data.spot_prices)
        total == Len(data.vols) * n
        vs(k) == vol_shock_of(data.vols[LoopI(k, n)], base_inputs)
        ss(k) == spot_shock_of(data.spot_prices[LoopJ(k, n)], base_inputs)
        cp(k) == data.call_prices[LoopI(k, n)][LoopJ(k, n)]
        pp(k) == data.put_prices[LoopI(k, n)][LoopJ(k, n)]
    IN  [calls |-> [k \in 1 .. total |-> call_output(vs(k), ss(k), cp(k), pp(k))],
         puts |-> [k \in 1 .. total |-> put_output(vs(k), ss(k), cp(k), pp(k))]]

(***************************************************************************)
(* BlackScholesCalculator.calculate_greeks                                 *)
(***************************************************************************)
\* the 'call' mapping of the returned dict
call_greeks(call_delta, gamma, call_theta, vega, call_rho) ==
    [delta |-> round4(call_delta), gamma |-> round4(gamma),
     theta |-> round4(call_theta), vega |-> round4(vega), rho |-> round4(call_rho)]

put_greeks_negated(put_delta, gamma, put_theta, vega, put_rho) ==
    [delta |-> round4(put_delta), gamma |-> round4(-gamma),
     theta |-> round4(put_theta), vega |-> round4(-vega), rho |-> round4(put_rho)]

\* the 'put' mapping of the returned dict
put_greeks(put_delta, gamma, put_theta, vega, put_rho) ==
    [delta |-> round4(put_delta), gamma |-> round4(gamma),
     theta |-> round4(put_theta), vega |-> round4(vega), rho |-> round4(put_rho)]

NoGreekValues == call_greeks(0, 0, 0, 0, 0)

\* The division by zero of a zero strike raises; a non-positive spot, time or
\* volatility gives numpy nan or inf values.
calculate_greeks(inputs) ==
    LET S == inputs.stock_price
        K == inputs.strike_price
        vol == inputs.volatility
        T == inputs.time_to_expiry
        r == inputs.risk_free_rate
        q == inputs.dividend_yield
    IN  IF K = 0
        THEN [call |-> NoGreekValues, put |-> NoGreekValues,
              nan |-> FALSE, raised |-> "ZeroDivisionError"]
        ELSE IF S <= 0 \/ K < 0 \/ Mul(vol, np_sqrt(T)) = 0
        THEN [call |-> NoGreekValues, put |-> NoGreekValues,
              nan |-> TRUE, raised |-> None]
        ELSE LET d1 == calc_d1(S, K, T, vol, r, q)
                 d2 == calc_d2(d1, T, vol)
                 call_delta == Mul(np_exp(Mul(-q, T)), norm_cdf(d1))
                 put_delta == Mul(-np_exp(Mul(-q, T)), norm_cdf(-d1))
                 gamma == Div(Mul(np_exp(Mul(-q, T)), norm_pdf(d1)),
                              Mul(Mul(S, vol), np_sqrt(T)))
                 vega == Mul(Mul(Mul(Mul(S, np_exp(Mul(-q, T))), norm_pdf(d1)),
                                 np_sqrt(T)), SCALE \div 100)
                 decay == Div(Mul(Mul(Mul(S, norm_pdf(d1)), vol), np_exp(Mul(-q, T))),
                              2 * np_sqrt(T))
                 call_theta ==
                     StepOf(- decay
                            - Mul(Mul(r, K), np_exp(Mul(-r, T))) + norm_cdf(d2)
                            + Mul(Mul(Mul(q, S), np_exp(Mul(-q, T))), norm_cdf(d1)),
                            365)
                 put_theta ==
                     StepOf(- decay
                            + Mul(Mul(r, K), np_exp(Mul(-r, T))) + norm_cdf(-d2)
                            - Mul(Mul(Mul(q, S), np_exp(Mul(-q, T))), norm_cdf(-d1)),
                            365)
                 call_rho == Mul(Mul(Mul(Mul(K, T), np_exp(Mul(-r, T))), norm_cdf(d2)),
                                 SCALE \div 100)
                 put_rho == Mul(Mul(Mul(Mul(-K, T), np_exp(Mul(-r, T))), norm_cdf(-d2)),
                                SCALE \div 100)
             IN  [call |-> call_greeks(call_delta, gamma, call_theta, vega, call_rho),
                  put |-> put_greeks(put_delta, gamma, put_theta, vega, put_rho),
                  nan |-> FALSE, raised |-> None]

NoGreeks ==
    [inputs |-> NoInputs,
     result |-> [call |-> NoGreekValues, put |-> NoGreekValues,
                 nan |-> FALSE, raised |-> None]]

\* the valid parameter sets the pricing functions are applied to
PricerInputs ==
    { OptionInputs(S, K, T, vol, r, q) :
        S \in {Milli(80000), Milli(100000), Milli(125000)},
        K \in {Milli(90000), Milli(100000), Milli(110000)},
        T \in {Milli(250), Milli(1000), Milli(2000)},
        vol \in {Milli(50), Milli(250), Milli(600)},
        r \in {Milli(-10), Milli(50)},
        q \in {0, Milli(20)} }

(***************************************************************************)
(* DatabaseManager: the SQLite file and the statements run on it           *)
(***************************************************************************)
MaxSaves == 3
MaxClock == 2

\* a numeric field that holds None or nan: sqlite3 binds either as NULL
NULL == -(2147483647)
NoTime == 0

CalculationInput(stock_price, strike_price, interest_rate, volatility, time_to_expiry, dividend_yield) ==
    [calculation_id |-> NoId, stock_price |-> stock_price,
     strike_price |-> strike_price, interest_rate |-> interest_rate,
     volatility |-> volatility, time_to_expiry |-> time_to_expiry,
     dividend_yield |-> dividend_yield, created_at |-> NoTime]

NoCalculationInput == CalculationInput(0, 0, 0, 0, 0, 0)

\* the rows of tests/test_database.py, and a put row without a price
TestOutputs ==
    <<CalculationOutput(0, 0, Milli(12340), TRUE),
      CalculationOutput(0, 0, Milli(5670), FALSE)>>
BadOutputs ==
    <<CalculationOutput(0, 0, Milli(12340), TRUE),
      CalculationOutput(0, 0, NULL, FALSE)>>

\* the arguments of the save_calculation calls
SaveArgs ==
    { [inputs |-> CalculationInput(Milli(100000), Milli(95000), Milli(50),
                                   Milli(250), Milli(1000), Milli(20)),
       outputs |-> TestOutputs],
      [inputs |-> CalculationInput(Milli(110000), Milli(95000), Milli(50),
                                   Milli(250), Milli(1000), 0),
       outputs |-> <<>>],
      [inputs |-> CalculationInput(Milli(110000), Milli(95000), Milli(50),
                                   Milli(250), Milli(1000), 0),
       outputs |-> BadOutputs],
      [inputs |-> CalculationInput(NULL, Milli(95000), Milli(50),
                                   Milli(250), Milli(1000), Milli(20)),
       outputs |-> TestOutputs] }

IdArgs == 1 .. MaxSaves
LimitArgs == 1 .. 2

\* the tables, in rowid order, and the sqlite_sequence counters that
\* AUTOINCREMENT keeps
EmptyDb ==
    [BlackScholesInputs |-> <<>>, BlackScholesOutputs |-> <<>>,
     seq_inputs |-> 0, seq_outputs |-> 0]

\* INSERT INTO BlackScholesInputs: every column is NOT NULL, the key is the
\* next AUTOINCREMENT value and CreatedAt defaults to CURRENT_TIMESTAMP
insert_input(d, inputs, timestamp) ==
    IF NULL \in {inputs.stock_price, inputs.strike_price, inputs.interest_rate,
                 inputs.volatility, inputs.time_to_expiry, inputs.dividend_yield}
    THEN [raised |-> "IntegrityError", db |-> d, lastrowid |-> NoId]
    ELSE [raised |-> None,
          db |-> [d EXCEPT
                    !.BlackScholesInputs =
                        Append(@, [CalculationId |-> d.seq_inputs + 1,
                                   StockPrice |-> inputs.stock_price,
                                   StrikePrice |-> inputs.strike_price,
                                   InterestRate |-> inputs.interest_rate,
                                   Volatility |-> inputs.volatility,
                                   TimeToExpiry |-> inputs.time_to_expiry,
                                   DividendYield |-> inputs.dividend_yield,
                                   CreatedAt |-> timestamp]),
                    !.seq_inputs = @ + 1],
          lastrowid |-> d.seq_inputs + 1]

\* an INSERT INTO BlackScholesOutputs that stores the row's own key in the
\* CalculationId column
insert_output_own_id(d, calculation_id, output) ==
    IF NULL \in {output.volatility_shock, output.stock_price_shock,
                 output.option_price}
    THEN [raised |-> "IntegrityError", db |-> d, lastrowid |-> NoId]
    ELSE [raised |-> None,
          db |-> [d EXCEPT
                    !.BlackScholesOutputs =
                        Append(@, [CalculationOutputId |-> d.seq_outputs + 1,
                                   VolatilityShock |-> output.volatility_shock,
                                   StockPriceShock |-> output.stock_price_shock,
                                   OptionPrice |-> output.option_price,
                                   IsCall |-> IF output.is_call THEN 1 ELSE 0,
                                   CalculationId |-> d.seq_outputs + 1]),
                    !.seq_outputs = @ + 1],
          lastrowid |-> d.seq_outputs + 1]

\* INSERT INTO BlackScholesOutputs for one output of the list
insert_output(d, calculation_id, output) ==
    IF NULL \in {output.volatility_shock, output.stock_price_shock,
                 output.option_price}
    THEN [raised |-> "IntegrityError", db |-> d, lastrowid |-> NoId]
    ELSE [raised |-> None,
          db |-> [d EXCEPT
                    !.BlackScholesOutputs =
                        Append(@, [CalculationOutputId |-> d.seq_outputs + 1,
                                   VolatilityShock |-> output.volatility_shock,
                                   StockPriceShock |-> output.stock_price_shock,
                                   OptionPrice |-> output.option_price,
                                   IsCall |-> IF output.is_call THEN 1 ELSE 0,
                                   CalculationId |-> calculation_id]),
                    !.seq_outputs = @ + 1],
          lastrowid |-> d.seq_outputs + 1]

rollback_keeps_work(committed, working) == working

\* conn.rollback(): the file keeps its committed content
rollback(committed, working) == committed

return_lastrowid(calculation_id, lastrowid) == lastrowid

\* return calculation_id: the key read right after the input row's insert
save_return(calculation_id, lastrowid) == calculation_id

select_any_input(rows, calculation_id) == rows

\* SELECT * FROM BlackScholesInputs WHERE CalculationId = ?
select_input(rows, calculation_id) ==
    SelectSeq(rows, LAMBDA row : row.CalculationId = calculation_id)

select_all_outputs(rows, calculation_id) == rows

\* SELECT * FROM BlackScholesOutputs WHERE CalculationId = ?
select_outputs(rows, calculation_id) ==
    SelectSeq(rows, LAMBDA row : row.CalculationId = calculation_id)

\* the CalculationInput built from a row of BlackScholesInputs
input_of_row(row) ==
    [calculation_id |-> row.CalculationId, stock_price |-> row.StockPrice,
     strike_price |-> row.StrikePrice, interest_rate |-> row.InterestRate,
     volatility |-> row.Volatility, time_to_expiry |-> row.TimeToExpiry,
     dividend_yield |-> row.DividendYield, created_at |-> row.CreatedAt]

\* the CalculationOutput built from a row of BlackScholesOutputs
output_of_row(row) ==
    [output_id |-> row.CalculationOutputId, calculation_id |-> row.CalculationId,
     volatility_shock |-> row.VolatilityShock,
     stock_price_shock |-> row.StockPriceShock,
     option_price |-> row.OptionPrice, is_call |-> row.IsCall # 0]

get_calculation_by_id(d, calculation_id) ==
    LET input_rows == select_input(d.BlackScholesInputs, calculation_id)
        fetched == select_outputs(d.BlackScholesOutputs, calculation_id)
    IN  IF input_rows = <<>>
        THEN [kind |-> "get", id |-> calculation_id, found |-> FALSE,
              input |-> NoCalculationInput, outputs |-> <<>>]
        ELSE [kind |-> "get", id |-> calculation_id, found |-> TRUE,
              input |-> input_of_row(Head(input_rows)),
              outputs |-> [k \in 1 .. Len(fetched) |->
                              output_of_row(fetched[k])]]

\* the orders ORDER BY CreatedAt DESC allows: rows with the same CreatedAt
\* come in an order the statement does not fix
order_by_created_at_desc(rows) ==
    { [k \in 1 .. Len(rows) |-> rows[f[k]]] :
        f \in { g \in [1 .. Len(rows) -> 1 .. Len(rows)] :
                  /\ \A a, b \in 1 .. Len(rows) : a # b => g[a] # g[b]
                  /\ \A a, b \in 1 .. Len(rows) :
                        a < b => rows[g[a]].CreatedAt >= rows[g[b]].CreatedAt } }

\* LIMIT ?: a negative limit means no limit
limit_rows(rows, limit) ==
    IF limit < 0 \/ limit >= Len(rows) THEN rows ELSE SubSeq(rows, 1, limit)

\* the results get_recent_calculations(limit) can return
get_recent_calculations(d, limit) ==
    { [kind |-> "recent", limit |-> limit,
       calculations |-> [k \in 1 .. Len(limit_rows(sorted, limit)) |->
                            input_of_row(sorted[k])]] :
        sorted \in order_by_created_at_desc(d.BlackScholesInputs) }

NoTx ==
    [open |-> FALSE, inputs |-> NoCalculationInput, outputs |-> <<>>,
     work |-> EmptyDb, calculation_id |-> NoId, lastrowid |-> NoId, k |-> 1]
NoDbResult == [kind |-> None]

(***************************************************************************)
(* State                                                                   *)
(***************************************************************************)
VARIABLES
    pc,           \* "idle", or the position of the running grid operation
    op,           \* the HeatmapService method that is running or has run
    ctor,         \* the caller's OptionInputs(...) construction and its outcome
    base,         \* the caller's OptionInputs object, or NoInputs
    prices,       \* inputs and result of the caller's own calculate call
    params,       \* the caller's HeatmapParameters object, or NoParams
    params_call,  \* how params was made, with the arguments
    spot_prices,  \* generate_heatmap's locals
    vols,
    call_prices,
    put_prices,
    i,
    j,
    shocked,      \* the loop's last OptionInputs(...) construction and its outcome
    evaluated,    \* the cells (i, j) the loop body has written
    calls,        \* the OptionInputs passed to calculator.calculate, in order
    result,       \* what the operation returned or raised
    greeks,       \* inputs and result of the caller's calculate_greeks call
    db,           \* the committed content of the SQLite file
    tx,           \* save_calculation's connection: its uncommitted work
    now,          \* the clock CURRENT_TIMESTAMP reads, in seconds
    history,      \* the save_calculation calls that have ended, in order
    db_result     \* what the last DatabaseManager call returned or raised

vars == <<pc, op, ctor, base, prices, params, params_call, spot_prices, vols,
          call_prices, put_prices, i, j, shocked, evaluated, calls, result,
          greeks, db, tx, now, history, db_result>>

locals == <<spot_prices, vols, call_prices, put_prices, i, j, shocked, evaluated>>

\* the state of the pricing side and the state of the DatabaseManager side
pricing == <<pc, op, ctor, base, prices, params, params_call, locals, calls,
             result, greeks>>
store == <<db, tx, now, history, db_result>>

NoCtor == [args |-> NoInputs, raised |-> None]
NoPrices ==
    [inputs |-> NoInputs,
     result |-> [call_price |-> 0, put_price |-> 0, nan |-> FALSE, raised |-> None]]
NoParamsCall == [by |-> None, spot_range_pct |-> 0, vol_range_pct |-> 0, steps |-> 0]
NoResult == [kind |-> None]

\* no grid operation has run for the current request
FreshRun ==
    /\ pc' = "idle"
    /\ op' = None
    /\ spot_prices' = <<>>
    /\ vols' = <<>>
    /\ call_prices' = <<>>
    /\ put_prices' = <<>>
    /\ i' = 1
    /\ j' = 1
    /\ shocked' = NoCtor
    /\ evaluated' = {}
    /\ calls' = <<>>
    /\ result' = NoResult

Init ==
    /\ pc = "idle"
    /\ op = None
    /\ ctor = NoCtor
    /\ base = NoInputs
    /\ prices = NoPrices
    /\ params = NoParams
    /\ params_call = NoParamsCall
    /\ spot_prices = <<>>
    /\ vols = <<>>
    /\ call_prices = <<>>
    /\ put_prices = <<>>
    /\ i = 1
    /\ j = 1
    /\ shocked = NoCtor
    /\ evaluated = {}
    /\ calls = <<>>
    /\ result = NoResult
    /\ greeks = NoGreeks
    /\ db = EmptyDb
    /\ tx = NoTx
    /\ now = 1
    /\ history = <<>>
    /\ db_result = NoDbResult

(***************************************************************************)
(* Operations                                                              *)
(***************************************************************************)
\* the caller constructs OptionInputs(...): __post_init__ validates it
NewOptionInputs(args) ==
    /\ pc = "idle"
    /\ ctor = NoCtor
    /\ ctor' = [args |-> args, raised |-> post_init(args)]
    /\ base' = IF post_init(args) = None THEN args ELSE NoInputs
    /\ prices' = NoPrices
    /\ params' = NoParams
    /\ params_call' = NoParamsCall
    /\ FreshRun
    /\ UNCHANGED <<greeks, store>>

\* the caller prices its object, BlackScholesCalculator.calculate(inputs),
\* before it asks for a grid
Calculate ==
    /\ pc = "idle"
    /\ base # NoInputs
    /\ params = NoParams
    /\ prices' = [inputs |-> base, result |-> calculate(base)]
    /\ UNCHANGED <<pc, op, ctor, base, params, params_call, locals, calls, result>>
    /\ UNCHANGED <<greeks, store>>

\* the caller derives the grid from the base case
CreateHeatmapParams(spot_range_pct, vol_range_pct, steps) ==
    /\ pc # "loop"
    /\ base # NoInputs
    /\ params' = create_heatmap_params_from_inputs(base, spot_range_pct,
                                                   vol_range_pct, steps)
    /\ params_call' = [by |-> "create_heatmap_params_from_inputs",
                       spot_range_pct |-> spot_range_pct,
                       vol_range_pct |-> vol_range_pct, steps |-> steps]
    /\ FreshRun
    /\ UNCHANGED <<ctor, base, prices, greeks, store>>

\* the caller constructs HeatmapParameters(...) itself (no validation)
NewHeatmapParameters(b, spot_steps, vol_steps) ==
    /\ pc # "loop"
    /\ base # NoInputs
    /\ params' = HeatmapParameters(b.min_spot, b.max_spot, b.min_vol, b.max_vol,
                                   spot_steps, vol_steps)
    /\ params_call' = [NoParamsCall EXCEPT !.by = "HeatmapParameters"]
    /\ FreshRun
    /\ UNCHANGED <<ctor, base, prices, greeks, store>>

\* generate_heatmap up to its loop: the two axes and the zeroed matrices
\* (np.linspace raises ValueError for a negative number of samples).
\* method is the entry point: generate_outputs_for_database starts by
\* calling generate_heatmap.
GenerateHeatmapStart(method) ==
    /\ pc # "loop"
    /\ base # NoInputs
    /\ params_call.by # None
    /\ op' = method
    /\ calls' = <<>>
    /\ i' = 1
    /\ j' = 1
    /\ shocked' = NoCtor
    /\ evaluated' = {}
    /\ IF params.spot_steps < 0 \/ params.vol_steps < 0
       THEN /\ pc' = "error"
            /\ result' = [kind |-> "raised", error |-> "ValueError"]
            /\ spot_prices' = <<>>
            /\ vols' = <<>>
            /\ call_prices' = <<>>
            /\ put_prices' = <<>>
       ELSE /\ pc' = "loop"
            /\ result' = NoResult
            /\ spot_prices' = linspace(params.min_spot, params.max_spot,
                                       params.spot_steps)
            /\ vols' = linspace(params.min_vol, params.max_vol, params.vol_steps)
            /\ call_prices' = zeros(Len(vols'), Len(spot_prices'))
            /\ put_prices' = zeros(Len(vols'), Len(spot_prices'))
    /\ UNCHANGED <<ctor, base, prices, params, params_call, greeks, store>>

\* a loop that stops one row of volatilities early
LoopDone_before_last_row == i >= Len(vols) \/ Len(spot_prices) = 0

\* the nested loop has visited every (i, j)
LoopDone == i > Len(vols) \/ Len(spot_prices) = 0

\* shocked inputs taken from the object of the caller's earlier calculate call
shocked_inputs_stale(base_input, spot, vol) ==
    IF prices # NoPrices
    THEN prices.inputs
    ELSE OptionInputs(spot, base_input.strike_price, base_input.time_to_expiry,
                      vol, base_input.risk_free_rate, base_input.dividend_yield)

\* shocked inputs whose volatility is bound at the first cell of a row only
shocked_inputs_row_vol(base_input, spot, vol) ==
    OptionInputs(spot, base_input.strike_price, base_input.time_to_expiry,
                 IF shocked = NoCtor \/ spot = spot_prices[1]
                 THEN vol ELSE shocked.args.volatility,
                 base_input.risk_free_rate, base_input.dividend_yield)

\* shocked inputs that keep the base volatility
shocked_inputs_base_vol(base_input, spot, vol) ==
    OptionInputs(spot, base_input.strike_price, base_input.time_to_expiry,
                 base_input.volatility, base_input.risk_free_rate,
                 base_input.dividend_yield)

\* shocked_inputs = OptionInputs(stock_price=spot, ..., volatility=vol, ...)
shocked_inputs(base_input, spot, vol) ==
    OptionInputs(spot, base_input.strike_price, base_input.time_to_expiry,
                 vol, base_input.risk_free_rate, base_input.dividend_yield)

\* one iteration of the loop body for the cell (i, j)
GenerateHeatmapCell ==
    /\ pc = "loop"
    /\ ~LoopDone
    /\ LET inputs == shocked_inputs(base, spot_prices[j], vols[i])
           raised == post_init(inputs)
           p == calculate(inputs)
       IN  /\ shocked' = [args |-> inputs, raised |-> raised]
           /\ IF raised # None
              THEN /\ pc' = "error"
                   /\ result' = [kind |-> "raised", error |-> raised]
                   /\ UNCHANGED <<call_prices, put_prices, i, j, calls, evaluated>>
              ELSE /\ calls' = Append(calls, inputs)
                   /\ call_prices' = [call_prices EXCEPT ![i][j] = p.call_price]
                   /\ put_prices' = [put_prices EXCEPT ![i][j] = p.put_price]
                   /\ j' = IF j = Len(spot_prices) THEN 1 ELSE j + 1
                   /\ i' = IF j = Len(spot_prices) THEN i + 1 ELSE i
                   /\ evaluated' = evaluated \cup {<<i, j>>}
                   /\ UNCHANGED <<pc, result>>
    /\ UNCHANGED <<op, ctor, base, prices, params, params_call, spot_prices, vols>>
    /\ UNCHANGED <<greeks, store>>

\* return HeatMapData(...)
HeatMapData ==
    [kind |-> "HeatMapData", spot_prices |-> spot_prices, vols |-> vols,
     call_prices |-> call_prices, put_prices |-> put_prices]

\* the loop is over: generate_heatmap returns the grid, and
\* generate_outputs_for_database goes on to build and return its rows
GenerateReturn ==
    /\ pc = "loop"
    /\ LoopDone
    /\ pc' = "done"
    /\ result' = IF op = "generate_heatmap"
                 THEN HeatMapData
                 ELSE [kind |-> "outputs",
                       calls |-> output_rows(base, HeatMapData).calls,
                       puts |-> output_rows(base, HeatMapData).puts]
    /\ UNCHANGED <<op, ctor, base, prices, params, params_call, locals, calls>>
    /\ UNCHANGED <<greeks, store>>

\* the request is over: the caller drops its objects
Discard ==
    /\ pc # "loop"
    /\ ctor # NoCtor
    /\ ctor' = NoCtor
    /\ base' = NoInputs
    /\ prices' = NoPrices
    /\ params' = NoParams
    /\ params_call' = NoParamsCall
    /\ FreshRun
    /\ UNCHANGED <<greeks, store>>

Next ==
    \/ \E args \in OptionInputsArgs : NewOptionInputs(args)
    \/ Calculate
    \/ \E sp \in SpotRangeArgs, vp \in VolRangeArgs, n \in StepArgs :
          CreateHeatmapParams(sp, vp, n)
    \/ \E b \in DirectBounds, ns \in 1 .. MaxSteps, nv \in 1 .. MaxSteps :
          NewHeatmapParameters(b, ns, nv)
    \/ \E m \in {"generate_heatmap", "generate_outputs_for_database"} :
          GenerateHeatmapStart(m)
    \/ GenerateHeatmapCell
    \/ GenerateReturn
    \/ Discard

Spec == Init /\ [][Next]_vars

(***************************************************************************)
(* The loop body of generate_heatmap applied to the cells in any order      *)
(***************************************************************************)
\* most columns of a grid whose cells are evaluated in any order
MaxOrderSteps == 2

\* base inputs and grids of the runs whose cells are evaluated in any order
OrderInputs ==
    { x \in PricerInputs : /\ x.stock_price = Milli(100000)
                           /\ x.strike_price = Milli(100000)
                           /\ x.time_to_expiry = SCALE
                           /\ x.risk_free_rate = Milli(50)
                           /\ x.dividend_yield = Milli(20) }

OrderGrids ==
    { HeatmapParameters(b.min_spot, b.max_spot, b.min_vol, b.max_vol, ns, 2) :
        b \in DirectBounds, ns \in 1 .. MaxOrderSteps }

\* generate_heatmap has built its axes and its zero matrices
InitAnyOrder ==
    /\ pc = "loop"
    /\ op = "generate_heatmap"
    /\ base \in OrderInputs
    /\ ctor = [args |-> base, raised |-> post_init(base)]
    /\ prices = NoPrices
    /\ params \in OrderGrids
    /\ params_call = [by |-> "HeatmapParameters", spot_range_pct |-> 0,
                      vol_range_pct |-> 0, steps |-> 0]
    /\ spot_prices = linspace(params.min_spot, params.max_spot, params.spot_steps)
    /\ vols = linspace(params.min_vol, params.max_vol, params.vol_steps)
    /\ call_prices = zeros(Len(vols), Len(spot_prices))
    /\ put_prices = zeros(Len(vols), Len(spot_prices))
    /\ i = 1
    /\ j = 1
    /\ shocked = NoCtor
    /\ evaluated = {}
    /\ calls = <<>>
    /\ result = NoResult
    /\ greeks = NoGreeks
    /\ db = EmptyDb
    /\ tx = NoTx
    /\ now = 1
    /\ history = <<>>
    /\ db_result = NoDbResult

\* the loop body for a cell (a, b) that has not been evaluated yet, whatever
\* cells came before it
EvaluateCell(a, b) ==
    /\ pc = "loop"
    /\ <<a, b>> \notin evaluated
    /\ LET inputs == shocked_inputs(base, spot_prices[b], vols[a])
           raised == post_init(inputs)
           p == calculate(inputs)
       IN  /\ shocked' = [args |-> inputs, raised |-> raised]
           /\ i' = a
           /\ j' = b
           /\ IF raised # None
              THEN /\ pc' = "error"
                   /\ result' = [kind |-> "raised", error |-> raised]
                   /\ UNCHANGED <<call_prices, put_prices, calls, evaluated>>
              ELSE /\ calls' = Append(calls, inputs)
                   /\ call_prices' = [call_prices EXCEPT ![a][b] = p.call_price]
                   /\ put_prices' = [put_prices EXCEPT ![a][b] = p.put_price]
                   /\ evaluated' = evaluated \cup {<<a, b>>}
                   /\ UNCHANGED <<pc, result>>
    /\ UNCHANGED <<op, ctor, base, prices, params, params_call, spot_prices, vols>>
    /\ UNCHANGED <<greeks, store>>

\* every cell has been evaluated: return HeatMapData(...)
AnyOrderReturn ==
    /\ pc = "loop"
    /\ evaluated = (1 .. Len(vols)) \X (1 .. Len(spot_prices))
    /\ pc' = "done"
    /\ result' = HeatMapData
    /\ UNCHANGED <<op, ctor, base, prices, params, params_call, locals, calls>>
    /\ UNCHANGED <<greeks, store>>

NextAnyOrder ==
    \/ \E a \in 1 .. Len(vols), b \in 1 .. Len(spot_prices) : EvaluateCell(a, b)
    \/ AnyOrderReturn

SpecAnyOrder == InitAnyOrder /\ [][NextAnyOrder]_vars

(***************************************************************************)
(* create_heatmap_params_from_inputs applied to a range of valid inputs     *)
(***************************************************************************)
\* valid base inputs, low volatilities among them
ParamsInputs ==
    { OptionInputs(S, Milli(100000), SCALE, vol, Milli(50), 0) :
        S \in {Milli(500), Milli(100000)},
        vol \in {Milli(1), Milli(4), Milli(5), Milli(250)} }

\* range percentages in [0, 1)
RangePctArgs == {0, Milli(200), Milli(990)}

InitParams ==
    /\ pc = "idle"
    /\ op = None
    /\ base \in ParamsInputs
    /\ ctor = [args |-> base, raised |-> post_init(base)]
    /\ prices = NoPrices
    /\ params = NoParams
    /\ params_call = NoParamsCall
    /\ spot_prices = <<>>
    /\ vols = <<>>
    /\ call_prices = <<>>
    /\ put_prices = <<>>
    /\ i = 1
    /\ j = 1
    /\ shocked = NoCtor
    /\ evaluated = {}
    /\ calls = <<>>
    /\ result = NoResult
    /\ greeks = NoGreeks
    /\ db = EmptyDb
    /\ tx = NoTx
    /\ now = 1
    /\ history = <<>>
    /\ db_result = NoDbResult

NextParams ==
    \E sp \in RangePctArgs, vp \in RangePctArgs, n \in 1 .. MaxSteps :
        CreateHeatmapParams(sp, vp, n)

SpecParams == InitParams /\ [][NextParams]_vars

(***************************************************************************)
(* The pricing functions applied to a range of valid parameter sets        *)
(***************************************************************************)
InitPricer ==
    /\ pc = "idle"
    /\ op = None
    /\ base \in PricerInputs
    /\ ctor = [args |-> base, raised |-> post_init(base)]
    /\ prices = NoPrices
    /\ params = NoParams
    /\ params_call = NoParamsCall
    /\ spot_prices = <<>>
    /\ vols = <<>>
    /\ call_prices = <<>>
    /\ put_prices = <<>>
    /\ i = 1
    /\ j = 1
    /\ shocked = NoCtor
    /\ evaluated = {}
    /\ calls = <<>>
    /\ result = NoResult
    /\ greeks = NoGreeks
    /\ db = EmptyDb
    /\ tx = NoTx
    /\ now = 1
    /\ history = <<>>
    /\ db_result = NoDbResult

\* the caller asks for the Greeks of its object,
\* BlackScholesCalculator.calculate_greeks(inputs)
CalculateGreeks ==
    /\ pc = "idle"
    /\ base # NoInputs
    /\ params = NoParams
    /\ greeks' = [inputs |-> base, result |-> calculate_greeks(base)]
    /\ UNCHANGED <<pc, op, ctor, base, prices, params, params_call, locals, calls,
                   result, store>>

\* the assignments a caller makes to a field of its object
Assignments ==
    {<<"stock_price", Milli(-10000)>>, <<"dividend_yield", Milli(-20)>>,
     <<"volatility", Milli(300)>>}

\* inputs.<field> = value on a constructed object: the dataclass is not
\* frozen and __post_init__ does not run again
SetAttr(field, value) ==
    /\ pc = "idle"
    /\ base \in PricerInputs
    /\ base' = [base EXCEPT ![field] = value]
    /\ UNCHANGED <<pc, op, ctor, prices, params, params_call, locals, calls,
                   result, greeks, store>>

NextPricer ==
    \/ Calculate
    \/ CalculateGreeks
    \/ \E a \in Assignments : SetAttr(a[1], a[2])

SpecPricer == InitPricer /\ [][NextPricer]_vars

(***************************************************************************)
(* DatabaseManager operations                                              *)
(***************************************************************************)
\* what history keeps of a save_calculation call that raised: the number of
\* inserted rows its rollback undid
FailedSave(undone) ==
    [raised |-> "IntegrityError", calculation_id |-> NoId,
     inputs |-> NoCalculationInput, outputs |-> <<>>, undone |-> undone]

\* save_calculation up to its loop: a connection is opened and the input row
\* inserted; the key of the row is read from cursor.lastrowid.  A failed
\* insert is rolled back and raised again.
SaveCalculation(inputs, outputs) ==
    /\ ~tx.open
    /\ Len(history) < MaxSaves
    /\ LET ins == insert_input(db, inputs, now)
       IN  IF ins.raised # None
           THEN /\ db' = rollback(db, ins.db)
                /\ tx' = NoTx
                /\ history' = Append(history, FailedSave(0))
                /\ db_result' = [kind |-> "raised", error |-> ins.raised]
           ELSE /\ tx' = [open |-> TRUE, inputs |-> inputs, outputs |-> outputs,
                          work |-> ins.db, calculation_id |-> ins.lastrowid,
                          lastrowid |-> ins.lastrowid, k |-> 1]
                /\ db_result' = NoDbResult
                /\ UNCHANGED <<db, history>>
    /\ UNCHANGED <<now, pricing>>

\* one turn of save_calculation's loop: the next output row is inserted
SaveInsertOutput ==
    /\ tx.open
    /\ tx.k <= Len(tx.outputs)
    /\ LET ins == insert_output(tx.work, tx.calculation_id, tx.outputs[tx.k])
       IN  IF ins.raised # None
           THEN /\ db' = rollback(db, tx.work)
                /\ tx' = NoTx
                /\ history' = Append(history, FailedSave(tx.k))
                /\ db_result' = [kind |-> "raised", error |-> ins.raised]
           ELSE /\ tx' = [tx EXCEPT !.work = ins.db, !.lastrowid = ins.lastrowid,
                                    !.k = @ + 1]
                /\ UNCHANGED <<db, history, db_result>>
    /\ UNCHANGED <<now, pricing>>

\* the end of save_calculation: conn.commit() and the return of the key
SaveCommit ==
    /\ tx.open
    /\ tx.k > Len(tx.outputs)
    /\ db' = tx.work
    /\ tx' = NoTx
    /\ history' = Append(history,
                         [raised |-> None,
                          calculation_id |-> save_return(tx.calculation_id,
                                                         tx.lastrowid),
                          inputs |-> tx.inputs, outputs |-> tx.outputs,
                          undone |-> 0])
    /\ db_result' = [kind |-> "saved",
                     calculation_id |-> save_return(tx.calculation_id, tx.lastrowid)]
    /\ UNCHANGED <<now, pricing>>

\* get_calculation_by_id on a connection of its own: it reads what is
\* committed
GetCalculationById(calculation_id) ==
    /\ db_result' = get_calculation_by_id(db, calculation_id)
    /\ UNCHANGED <<db, tx, now, history, pricing>>

\* get_recent_calculations on a connection of its own
GetRecentCalculations(limit) ==
    /\ \E r \in get_recent_calculations(db, limit) : db_result' = r
    /\ UNCHANGED <<db, tx, now, history, pricing>>

\* a second passes
Tick ==
    /\ now < MaxClock
    /\ now' = now + 1
    /\ UNCHANGED <<db, tx, history, db_result, pricing>>

NextDb ==
    \/ \E args \in SaveArgs : SaveCalculation(args.inputs, args.outputs)
    \/ SaveInsertOutput
    \/ SaveCommit
    \/ \E calculation_id \in IdArgs : GetCalculationById(calculation_id)
    \/ \E limit \in LimitArgs : GetRecentCalculations(limit)
    \/ Tick

SpecDb == Init /\ [][NextDb]_vars
(***************************************************************************)
(* Properties                                                              *)
(***************************************************************************)
\* the validity invariant of OptionInputs, as the data model states it
ValidInputs(x) ==
    /\ x.stock_price > 0
    /\ x.strike_price > 0
    /\ x.time_to_expiry > 0
    /\ x.volatility > 0
    /\ x.dividend_yield >= 0

\* every construction of an OptionInputs object recorded in the state
Constructions == {c \in {ctor, shocked} : c # NoCtor}

\* C1: constructing OptionInputs raises ValueError exactly when stock_price,
\* strike_price, time_to_expiry or volatility is <= 0 or dividend_yield is
\* < 0; every other combination, whatever the sign of risk_free_rate, yields
\* the object.
C1_ValidationAtConstruction ==
    /\ \A c \in Constructions :
          /\ c.raised \in {None, "ValueError"}
          /\ (c.raised = "ValueError") <=> ~ValidInputs(c.args)
    /\ ctor # NoCtor => base = (IF ValidInputs(ctor.args) THEN ctor.args ELSE NoInputs)

\* a construction with a negative rate succeeded, one in the loop was refused
C1_Witness ==
    /\ ctor.raised = None
    /\ base = ctor.args
    /\ ctor.args.risk_free_rate < 0
    /\ shocked # NoCtor
    /\ shocked.raised = "ValueError"

\* the pricing formulas of the design, written out
SpecD1(x) ==
    Div(np_log(Div(x.stock_price, x.strike_price))
          + Mul(x.risk_free_rate - x.dividend_yield
                  + Div(Mul(x.volatility, x.volatility), 2 * SCALE),
                x.time_to_expiry),
        Mul(x.volatility, np_sqrt(x.time_to_expiry)))

SpecD2(x) == SpecD1(x) - Mul(x.volatility, np_sqrt(x.time_to_expiry))

\* S e^(-qT)  and  K e^(-rT)
SpecDiscountedSpot(x) ==
    Mul(x.stock_price, np_exp(-Mul(x.dividend_yield, x.time_to_expiry)))

SpecDiscountedStrike(x) ==
    Mul(x.strike_price, np_exp(-Mul(x.risk_free_rate, x.time_to_expiry)))

SpecCall(x) ==
    Mul(SpecDiscountedSpot(x), norm_cdf(SpecD1(x)))
      - Mul(SpecDiscountedStrike(x), norm_cdf(SpecD2(x)))

SpecPut(x) ==
    Mul(SpecDiscountedStrike(x), norm_cdf(-SpecD2(x)))
      - Mul(SpecDiscountedSpot(x), norm_cdf(-SpecD1(x)))

HeatmapReturned == pc = "done" /\ op = "generate_heatmap" /\ result.kind = "HeatMapData"

\* the parameter set the design prescribes for cell (a, b) of a grid
CellInputs(grid, a, b) ==
    [stock_price |-> grid.spot_prices[b], strike_price |-> base.strike_price,
     time_to_expiry |-> base.time_to_expiry, volatility |-> grid.vols[a],
     risk_free_rate |-> base.risk_free_rate,
     dividend_yield |-> base.dividend_yield]

\* C3: in the result of generate_heatmap, call_prices[i][j] and
\* put_prices[i][j] are the prices calculate returns for stock_price =
\* spot_prices[j], volatility = vols[i] and the base input's strike, time,
\* rate and dividend yield (row = volatility, column = underlying price).
C3_CellIsPriceOfItsPair ==
    HeatmapReturned =>
        \A a \in 1 .. Len(result.vols), b \in 1 .. Len(result.spot_prices) :
            /\ result.call_prices[a][b] = calculate(CellInputs(result, a, b)).call_price
            /\ result.put_prices[a][b] = calculate(CellInputs(result, a, b)).put_price

\* a returned 2 x 3 grid whose prices vary along both axes
C3_Witness ==
    /\ HeatmapReturned
    /\ Len(result.vols) = 2
    /\ Len(result.spot_prices) = 3
    /\ result.call_prices[1][1] # result.call_prices[1][3]
    /\ result.call_prices[1][1] # result.call_prices[2][1]
    /\ result.put_prices[1][3] # result.put_prices[2][3]

\* C4: generate_heatmap returns a spot_prices axis of length spot_steps, a
\* vols axis of length vol_steps and call_prices / put_prices matrices of
\* shape [vol_steps][spot_steps], for all spot_steps, vol_steps >= 1.
C4_GridShape ==
    (HeatmapReturned /\ params.spot_steps >= 1 /\ params.vol_steps >= 1) =>
        /\ Len(result.spot_prices) = params.spot_steps
        /\ Len(result.vols) = params.vol_steps
        /\ Len(result.call_prices) = params.vol_steps
        /\ Len(result.put_prices) = params.vol_steps
        /\ \A a \in 1 .. params.vol_steps :
              /\ Len(result.call_prices[a]) = params.spot_steps
              /\ Len(result.put_prices[a]) = params.spot_steps

\* a returned grid with more spot steps than vol steps
C4_Witness ==
    /\ HeatmapReturned
    /\ params.vol_steps = 1
    /\ params.spot_steps = MaxSteps
    /\ Len(result.call_prices) = 1
    /\ Len(result.call_prices[1]) = MaxSteps

\* consecutive differences of an axis
AxisDiff(axis, k) == axis[k + 1] - axis[k]

\* the axis starts at lo and ends at hi
AxisEndpoints(axis, lo, hi) == axis[1] = lo /\ axis[Len(axis)] = hi

\* C5 as stated: for every step count >= 1 each axis is evenly spaced, starts
\* at the lower bound and ends at the upper bound.
C5_AsStated ==
    (HeatmapReturned /\ params.spot_steps >= 1 /\ params.vol_steps >= 1) =>
        /\ AxisEndpoints(result.spot_prices, params.min_spot, params.max_spot)
        /\ AxisEndpoints(result.vols, params.min_vol, params.max_vol)
        /\ \A k \in 1 .. (Len(result.spot_prices) - 1) :
              AxisDiff(result.spot_prices, k) = AxisDiff(result.spot_prices, 1)
        /\ \A k \in 1 .. (Len(result.vols) - 1) :
              AxisDiff(result.vols, k) = AxisDiff(result.vols, 1)

\* an axis of n >= 2 samples from lo to hi: both endpoints, and steps that
\* differ only by the rounding of the step (one unit per sample); an axis
\* of one sample is the lower bound alone
AxisAmended(axis, lo, hi, n) ==
    /\ Len(axis) = n
    /\ axis[1] = lo
    /\ n >= 2 => axis[n] = hi
    /\ \A k \in 1 .. (n - 1) :
          Abs(AxisDiff(axis, k) - AxisDiff(axis, 1)) <= n

\* C5 (amended): for every step count >= 2 each axis holds both bounds and
\* is evenly spaced up to the rounding of the step; for a step count of 1
\* the axis is the lower bound alone and the upper bound is not sampled.
C5_AxisEvenWithEndpoints ==
    (HeatmapReturned /\ params.spot_steps >= 1 /\ params.vol_steps >= 1) =>
        /\ AxisAmended(result.spot_prices, params.min_spot, params.max_spot,
                       params.spot_steps)
        /\ AxisAmended(result.vols, params.min_vol, params.max_vol,
                       params.vol_steps)

\* a returned grid with a three-sample spot axis and a one-sample vol axis
\* between distinct bounds
C5_Witness ==
    /\ HeatmapReturned
    /\ params.spot_steps = 3
    /\ params.vol_steps = 1
    /\ params.min_spot < params.max_spot
    /\ params.min_vol < params.max_vol
    /\ result.spot_prices[2] - result.spot_prices[1] > 0
    /\ result.vols = <<params.min_vol>>

\* the parameters were derived by create_heatmap_params_from_inputs
Derived == params_call.by = "create_heatmap_params_from_inputs"

\* C6: create_heatmap_params_from_inputs returns min_spot = S (1 - spot_range_pct),
\* max_spot = S (1 + spot_range_pct), max_vol = sigma (1 + vol_range_pct),
\* min_vol = max(sigma (1 - vol_range_pct), 0.005), spot_steps = vol_steps =
\* steps; min_vol >= 0.005 > 0, and a grid built from it never passes a
\* non-positive volatility to the pricing engine.
C6_DerivedParams ==
    Derived =>
        /\ params.min_spot = Mul(base.stock_price, SCALE - params_call.spot_range_pct)
        /\ params.max_spot = Mul(base.stock_price, SCALE + params_call.spot_range_pct)
        /\ params.max_vol = Mul(base.volatility, SCALE + params_call.vol_range_pct)
        /\ params.min_vol =
              (IF Mul(base.volatility, SCALE - params_call.vol_range_pct) > VolFloor
               THEN Mul(base.volatility, SCALE - params_call.vol_range_pct)
               ELSE VolFloor)
        /\ params.spot_steps = params_call.steps
        /\ params.vol_steps = params_call.steps
        /\ params.min_vol >= VolFloor
        /\ VolFloor > 0
        /\ \A k \in 1 .. Len(calls) : calls[k].volatility > 0

\* a grid derived with a range wider than the base volatility, so that the
\* floor applies, has been priced at the floor volatility
C6_Witness ==
    /\ Derived
    /\ params_call.vol_range_pct > SCALE
    /\ params.min_vol = VolFloor
    /\ pc = "done"
    /\ Len(calls) > 1
    /\ calls[1].volatility = VolFloor

\* a grid operation has been called with the current parameters
Called == op # None

\* the step count is < 1 or a grid bound is non-positive
BadConfiguration ==
    \/ params.spot_steps < 1
    \/ params.vol_steps < 1
    \/ params.min_spot <= 0
    \/ params.max_spot <= 0
    \/ params.min_vol <= 0
    \/ params.max_vol <= 0

\* C7: if the step count is < 1 or a derived grid bound is non-positive, grid
\* generation fails with a configuration error before the pricing engine
\* has been invoked for any cell: zero calculate calls, no grid returned.
C7_ConfigurationError ==
    (Called /\ BadConfiguration) =>
        /\ Len(calls) = 0
        /\ pc # "done"
        /\ result.kind \in {None, "raised"}

\* every parameter set handed to calculator.calculate in the running or
\* finished grid operation
Priced == {calls[k] : k \in 1 .. Len(calls)}

\* the spot and volatility values of the cells of the grid
SweptValues ==
    IF Len(vols) = 0 \/ Len(spot_prices) = 0 THEN {}
    ELSE {spot_prices[b] : b \in 1 .. Len(spot_prices)}
           \cup {vols[a] : a \in 1 .. Len(vols)}

\* C8: during generate_heatmap the pricing engine is never invoked with
\* parameters that violate the validity invariant: every per-cell parameter
\* set is validated at construction, and when a swept spot or volatility is
\* non-positive the validation error reaches the caller and no grid, whole
\* or partial, is returned.
C8_OnlyValidInputsPriced ==
    /\ \A x \in Priced : ValidInputs(x)
    /\ Len(calls) > 0 => shocked # NoCtor
    /\ (Len(calls) > 0 /\ shocked.raised = None) => calls[Len(calls)] = shocked.args
    /\ (shocked # NoCtor /\ ~ValidInputs(shocked.args)) =>
          /\ pc = "error"
          /\ result = [kind |-> "raised", error |-> "ValueError"]
    /\ pc = "done" =>
          /\ \A v \in SweptValues : v > 0
          /\ Len(calls) = Len(vols) * Len(spot_prices)

\* the loop priced its first cell and was stopped by the validation of the
\* second, whose spot is not positive
C8_Witness ==
    /\ pc = "error"
    /\ Len(calls) = 1
    /\ shocked.raised = "ValueError"
    /\ shocked.args.stock_price <= 0
    /\ result.kind = "raised"

\* generate_outputs_for_database has returned its two lists
OutputsReturned ==
    pc = "done" /\ op = "generate_outputs_for_database" /\ result.kind = "outputs"

\* C9: generate_outputs_for_database returns exactly spot_steps * vol_steps
\* call rows and as many put rows, one of each per grid cell.
C9_RowCount ==
    OutputsReturned =>
        /\ Len(result.calls) = params.spot_steps * params.vol_steps
        /\ Len(result.puts) = params.spot_steps * params.vol_steps
        /\ Len(result.calls) + Len(result.puts)
              = 2 * params.spot_steps * params.vol_steps

\* rows were returned for a 3 x 2 grid
C9_Witness ==
    /\ OutputsReturned
    /\ params.spot_steps = 2
    /\ params.vol_steps = 3
    /\ Len(result.calls) = 6
    /\ Len(result.puts) = 6

\* the position in either list of the row of cell (a, b)
RowOf(a, b) == (a - 1) * Len(spot_prices) + b

\* C10: the rows of grid cell (i, j) carry volatility_shock = vols[i] - base
\* volatility and stock_price_shock = spot_prices[j] - base stock price, the
\* call row and the put row alike.
C10_RowsCarryShocks ==
    OutputsReturned =>
        \A a \in 1 .. Len(vols), b \in 1 .. Len(spot_prices) :
            /\ result.calls[RowOf(a, b)].volatility_shock = vols[a] - base.volatility
            /\ result.calls[RowOf(a, b)].stock_price_shock
                  = spot_prices[b] - base.stock_price
            /\ result.puts[RowOf(a, b)].volatility_shock
                  = result.calls[RowOf(a, b)].volatility_shock
            /\ result.puts[RowOf(a, b)].stock_price_shock
                  = result.calls[RowOf(a, b)].stock_price_shock

\* rows of a 3 x 2 grid around the base case: negative shocks in the first
\* cell, positive ones in the last
C10_Witness ==
    /\ OutputsReturned
    /\ Len(vols) = 3
    /\ Len(spot_prices) = 2
    /\ result.calls[1].volatility_shock < 0
    /\ result.calls[1].stock_price_shock < 0
    /\ result.puts[6].volatility_shock > 0
    /\ result.puts[6].stock_price_shock > 0

\* C11: in generate_outputs_for_database the put row of every grid cell (i, j)
\* carries option_price = put_prices[i][j] and the call row carries
\* option_price = call_prices[i][j].
C11_RowsCarryOwnPrice ==
    OutputsReturned =>
        \A a \in 1 .. Len(vols), b \in 1 .. Len(spot_prices) :
            /\ result.calls[RowOf(a, b)].option_price = call_prices[a][b]
            /\ result.puts[RowOf(a, b)].option_price = put_prices[a][b]

\* the number of rows of a list whose is_call flag is the given one
RECURSIVE CountSide(_, _)
CountSide(rows, flag) ==
    IF rows = <<>> THEN 0
    ELSE (IF Head(rows).is_call = flag THEN 1 ELSE 0) + CountSide(Tail(rows), flag)

\* C12: every row of the put list has is_call = False and every row of the
\* call list has is_call = True, so the rows the app saves (call rows followed
\* by put rows) split into equally many call rows and put rows.
C12_RowsCarryOwnSide ==
    OutputsReturned =>
        /\ \A k \in 1 .. Len(result.calls) : result.calls[k].is_call = TRUE
        /\ \A k \in 1 .. Len(result.puts) : result.puts[k].is_call = FALSE
        /\ CountSide(result.calls \o result.puts, TRUE)
              = CountSide(result.calls \o result.puts, FALSE)

\* the save_calculation calls that returned
Saved(h) == SelectSeq(h, LAMBDA s : s.raised = None)

\* the rows of BlackScholesOutputs that belong to a calculation
RowsOf(d, id) == SelectSeq(d.BlackScholesOutputs, LAMBDA row : row.CalculationId = id)

RECURSIVE TotalOutputs(_)
TotalOutputs(saved) ==
    IF saved = <<>> THEN 0 ELSE Len(Head(saved).outputs) + TotalOutputs(Tail(saved))

\* the committed tables hold the calculations of the saves that returned,
\* each with all of its output rows, and nothing else
AllOrNothing(d, h) ==
    /\ Len(d.BlackScholesInputs) = Len(Saved(h))
    /\ Len(d.BlackScholesOutputs) = TotalOutputs(Saved(h))
    /\ \A k \in 1 .. Len(Saved(h)) :
          /\ d.BlackScholesInputs[k].StockPrice = Saved(h)[k].inputs.stock_price
          /\ Len(RowsOf(d, d.BlackScholesInputs[k].CalculationId))
                = Len(Saved(h)[k].outputs)

HasNull(output) ==
    NULL \in {output.volatility_shock, output.stock_price_shock, output.option_price}

\* C13: save_calculation is atomic: after any call either the input row and
\* every given output row are persisted or, when an insert fails, none of them
\* is; no query sees an input row without its outputs or a part of the
\* outputs, and the failure is raised to the caller.
C13_SaveAtomic ==
    [][/\ AllOrNothing(db', history')
       /\ db_result'.kind = "raised" => db' = db
       /\ (tx.open /\ tx' # tx /\ tx.k <= Len(tx.outputs) /\ HasNull(tx.outputs[tx.k])) =>
             /\ db_result' = [kind |-> "raised", error |-> "IntegrityError"]
             /\ db' = db
             /\ ~tx'.open
       /\ db' # db =>
             /\ db_result'.kind = "saved"
             /\ Len(db'.BlackScholesInputs) = Len(db.BlackScholesInputs) + 1
             /\ Len(db'.BlackScholesOutputs)
                   = Len(db.BlackScholesOutputs) + Len(tx.outputs)]_vars

\* after a save that returned, a save raised at its second output row: the
\* input row and the first output row were undone
C13_Witness ==
    /\ db_result.kind = "raised"
    /\ Len(history) = 2
    /\ history[1].raised = None
    /\ history[2].undone = 2
    /\ Len(db.BlackScholesInputs) = 1
    /\ Len(db.BlackScholesOutputs) = 2
    /\ ~tx.open

\* C14: every save_calculation that returns gives an identifier different
\* from those of all earlier saves that returned, also with rolled-back saves
\* in between, and no later operation changes the calculation an identifier
\* refers to.
C14_IdentifiersUniqueAndStable ==
    [][/\ \A a, b \in 1 .. Len(Saved(history')) :
             a # b => Saved(history')[a].calculation_id
                         # Saved(history')[b].calculation_id
       /\ \A k \in 1 .. Len(Saved(history)) :
             /\ Saved(history')[k] = Saved(history)[k]
             /\ get_calculation_by_id(db', Saved(history)[k].calculation_id)
                   = get_calculation_by_id(db, Saved(history)[k].calculation_id)]_vars

\* two saves returned different identifiers with a rolled-back save between
\* them
C14_Witness ==
    /\ Len(history) = 3
    /\ history[1].raised = None
    /\ history[2].raised = "IntegrityError"
    /\ history[2].undone > 0
    /\ history[3].raised = None
    /\ history[3].calculation_id # history[1].calculation_id
    /\ db_result.kind = "saved"

\* the object get_calculation_by_id returns for a saved calculation
RoundTrip(s, g) ==
    /\ g.found
    /\ g.input.calculation_id = s.calculation_id
    /\ g.input.stock_price = s.inputs.stock_price
    /\ g.input.strike_price = s.inputs.strike_price
    /\ g.input.interest_rate = s.inputs.interest_rate
    /\ g.input.volatility = s.inputs.volatility
    /\ g.input.time_to_expiry = s.inputs.time_to_expiry
    /\ g.input.dividend_yield = s.inputs.dividend_yield
    /\ Len(g.outputs) = Len(s.outputs)
    /\ \A m \in 1 .. Len(g.outputs) :
          /\ g.outputs[m].calculation_id = s.calculation_id
          /\ g.outputs[m].volatility_shock = s.outputs[m].volatility_shock
          /\ g.outputs[m].stock_price_shock = s.outputs[m].stock_price_shock
          /\ g.outputs[m].option_price = s.outputs[m].option_price
          /\ g.outputs[m].is_call = s.outputs[m].is_call

\* C15: after save_calculation(inputs, outputs) returned id, and after any
\* number of further saves, get_calculation_by_id(id) returns the saved input
\* with calculation_id = id and exactly len(outputs) output rows, each with
\* calculation_id = id and the saved shocks, price and is_call flag; no row of
\* another calculation is included.
C15_SaveGetRoundTrip ==
    /\ \A k \in 1 .. Len(Saved(history)) :
          RoundTrip(Saved(history)[k],
                    get_calculation_by_id(db, Saved(history)[k].calculation_id))
    /\ (db_result.kind = "get" /\ db_result.found) =>
          \E k \in 1 .. Len(Saved(history)) :
              /\ Saved(history)[k].calculation_id = db_result.id
              /\ RoundTrip(Saved(history)[k], db_result)

\* the first of two saved calculations with output rows was read back
C15_Witness ==
    /\ db_result.kind = "get"
    /\ db_result.found
    /\ Len(Saved(history)) = 2
    /\ db_result.id = Saved(history)[1].calculation_id
    /\ Len(db_result.outputs) = 2
    /\ Len(db.BlackScholesOutputs) = 4
    /\ ~db_result.outputs[2].is_call

\* C16: get_calculation_by_id returns None exactly when no calculation with
\* the identifier has been saved, and it leaves the store as it was.
C16_NotFoundIffNotSaved ==
    [][/\ \A id \in IdArgs :
             get_calculation_by_id(db', id).found
                <=> \E k \in 1 .. Len(Saved(history')) :
                        Saved(history')[k].calculation_id = id
       /\ db_result'.kind = "get" =>
             /\ db' = db
             /\ db_result' = get_calculation_by_id(db, db_result'.id)]_vars

\* None was returned for the identifier a rolled-back save had used
C16_Witness ==
    /\ db_result.kind = "get"
    /\ ~db_result.found
    /\ db_result.id = 2
    /\ Len(history) = 2
    /\ history[1].raised = None
    /\ history[2].undone > 0

\* the position of a calculation in the order of the saves
SavedAt(id) ==
    CHOOSE k \in 1 .. Len(db.BlackScholesInputs) :
        db.BlackScholesInputs[k].CalculationId = id

\* C17: get_recent_calculations(limit) returns at most limit calculations,
\* the most recently saved ones, most recent first: a calculation saved later
\* never comes after one saved earlier, and none is returned while one saved
\* later is left out.
C17_RecentMostRecentFirst ==
    db_result.kind = "recent" =>
        LET got == db_result.calculations
            ids == { got[a].calculation_id : a \in 1 .. Len(got) }
        IN  /\ Len(got) <= db_result.limit
            /\ \A a, b \in 1 .. Len(got) :
                  a < b => SavedAt(got[a].calculation_id)
                              > SavedAt(got[b].calculation_id)
            /\ \A k \in 1 .. Len(db.BlackScholesInputs) :
                  db.BlackScholesInputs[k].CalculationId \notin ids =>
                      \A a \in 1 .. Len(got) : SavedAt(got[a].calculation_id) > k

\* the theta formulas as the specification gives them, before the rounding
SpecDecay(x) ==
    Div(Mul(Mul(Mul(x.stock_price, norm_pdf(SpecD1(x))), x.volatility),
            np_exp(-Mul(x.dividend_yield, x.time_to_expiry))),
        2 * np_sqrt(x.time_to_expiry))

SpecCallTheta(x) ==
    StepOf(- SpecDecay(x)
           - Mul(Mul(x.risk_free_rate, SpecDiscountedStrike(x)), norm_cdf(SpecD2(x)))
           + Mul(Mul(x.dividend_yield, SpecDiscountedSpot(x)), norm_cdf(SpecD1(x))),
           365)

SpecPutTheta(x) ==
    StepOf(- SpecDecay(x)
           + Mul(Mul(x.risk_free_rate, SpecDiscountedStrike(x)), norm_cdf(-SpecD2(x)))
           - Mul(Mul(x.dividend_yield, SpecDiscountedSpot(x)), norm_cdf(-SpecD1(x))),
           365)

\* one unit of the fourth decimal
Ulp4 == SCALE \div (10 ^ 4)

\* C18: calculate_greeks returns theta per calendar day, call_theta =
\* round4([-(S n(d1) sigma e^(-qT)) / (2 sqrt(T)) - r K e^(-rT) N(d2)
\* + q S e^(-qT) N(d1)] / 365) and put_theta = round4([-(S n(d1) sigma
\* e^(-qT)) / (2 sqrt(T)) + r K e^(-rT) N(-d2) - q S e^(-qT) N(-d1)] / 365):
\* the strike term is multiplied by N(d2), resp. N(-d2).  The comparison
\* allows one unit of the fourth decimal for the order of the roundings.
C18_ThetaFormula ==
    (greeks # NoGreeks /\ ValidInputs(greeks.inputs)) =>
        /\ Abs(greeks.result.call.theta - round4(SpecCallTheta(greeks.inputs))) <= Ulp4
        /\ Abs(greeks.result.put.theta - round4(SpecPutTheta(greeks.inputs))) <= Ulp4

GreekKeys == {"delta", "gamma", "theta", "vega", "rho"}

\* C19: for every valid input calculate_greeks returns a 'call' and a 'put'
\* mapping, each with exactly the keys delta, gamma, theta, vega, rho, and the
\* gamma and vega of the call mapping equal those of the put mapping.
C19_GreeksShape ==
    (greeks # NoGreeks /\ ValidInputs(greeks.inputs)) =>
        /\ greeks.result.raised = None
        /\ {"call", "put"} \subseteq DOMAIN greeks.result
        /\ DOMAIN greeks.result.call = GreekKeys
        /\ DOMAIN greeks.result.put = GreekKeys
        /\ greeks.result.call.gamma = greeks.result.put.gamma
        /\ greeks.result.call.vega = greeks.result.put.vega

\* Greeks with a positive gamma and vega, and deltas of opposite signs
C19_Witness ==
    /\ greeks # NoGreeks
    /\ greeks.result.call.gamma > 0
    /\ greeks.result.put.vega > 0
    /\ greeks.result.call.delta > 0
    /\ greeks.result.put.delta < 0

\* 1e-3
ParityTolerance == SCALE \div (10 ^ 3)

\* C20: put-call parity: for every valid OptionInputs the prices calculate
\* returns satisfy |(call_price - put_price) - (S e^(-qT) - K e^(-rT))| <= 1e-3.
C20_PutCallParity ==
    (prices # NoPrices /\ ValidInputs(prices.inputs)) =>
        Abs((prices.result.call_price - prices.result.put_price)
              - (SpecDiscountedSpot(prices.inputs)
                   - SpecDiscountedStrike(prices.inputs))) <= ParityTolerance

\* an object with a dividend yield was priced: both prices are positive and
\* off the 4-decimal grid's zero
C20_Witness ==
    /\ prices # NoPrices
    /\ prices.inputs.dividend_yield > 0
    /\ prices.inputs.risk_free_rate < 0
    /\ prices.result.call_price > 0
    /\ prices.result.put_price > prices.result.call_price

\* C21 as stated: for all valid OptionInputs the rounded call_price and
\* put_price calculate returns are strictly positive.
C21_AsStated ==
    (prices # NoPrices /\ ValidInputs(prices.inputs)) =>
        /\ prices.result.call_price > 0
        /\ prices.result.put_price > 0

\* C21: for all valid OptionInputs the rounded call_price and put_price are
\* never negative, and each is strictly positive when its unrounded value is
\* more than half a unit of the fourth decimal; a price below that is
\* returned as 0.0.
C21_PricesNotNegative ==
    (prices # NoPrices /\ ValidInputs(prices.inputs)) =>
        /\ prices.result.call_price >= 0
        /\ prices.result.put_price >= 0
        /\ 2 * SpecCall(prices.inputs) > Ulp4 => prices.result.call_price > 0
        /\ 2 * SpecPut(prices.inputs) > Ulp4 => prices.result.put_price > 0
        /\ 2 * SpecCall(prices.inputs) < Ulp4 => prices.result.call_price = 0
        /\ 2 * SpecPut(prices.inputs) < Ulp4 => prices.result.put_price = 0

\* a call far out of the money was priced at 0.0 while its put is positive
C21_Witness ==
    /\ prices # NoPrices
    /\ ValidInputs(prices.inputs)
    /\ prices.result.call_price = 0
    /\ prices.result.put_price > 0

\* the dividend yields of the parameter sets that are priced
DividendYields == { x.dividend_yield : x \in PricerInputs }

\* C22 as stated: of two valid OptionInputs that differ only in
\* dividend_yield, the one with the larger dividend_yield has a strictly
\* smaller call_price and a strictly larger put_price.
C22_AsStated ==
    (prices # NoPrices /\ ValidInputs(prices.inputs)) =>
        \A q \in DividendYields :
            q > prices.inputs.dividend_yield =>
                /\ calculate([prices.inputs EXCEPT !.dividend_yield = q]).call_price
                      < prices.result.call_price
                /\ calculate([prices.inputs EXCEPT !.dividend_yield = q]).put_price
                      > prices.result.put_price

\* C22: of two valid OptionInputs that differ only in dividend_yield, the
\* one with the larger dividend_yield has a call_price that is not larger and
\* a put_price that is not smaller; the rounded prices can be equal.
C22_DividendMonotone ==
    (prices # NoPrices /\ ValidInputs(prices.inputs)) =>
        \A q \in DividendYields :
            q > prices.inputs.dividend_yield =>
                /\ calculate([prices.inputs EXCEPT !.dividend_yield = q]).call_price
                      <= prices.result.call_price
                /\ calculate([prices.inputs EXCEPT !.dividend_yield = q]).put_price
                      >= prices.result.put_price

\* an object without dividends was priced whose call is cheaper and whose put
\* is dearer with the dividend yield
C22_Witness ==
    /\ prices # NoPrices
    /\ prices.inputs.dividend_yield = 0
    /\ \E q \in DividendYields :
          /\ q > 0
          /\ calculate([prices.inputs EXCEPT !.dividend_yield = q]).call_price
                < prices.result.call_price
          /\ calculate([prices.inputs EXCEPT !.dividend_yield = q]).put_price
                > prices.result.put_price

\* the grid as a function of the base input and the grid parameters alone
GridOf(b, p) ==
    LET xs == linspace(p.min_spot, p.max_spot, p.spot_steps)
        vs == linspace(p.min_vol, p.max_vol, p.vol_steps)
        x(a, c) == OptionInputs(xs[c], b.strike_price, b.time_to_expiry, vs[a],
                                b.risk_free_rate, b.dividend_yield)
    IN  [kind |-> "HeatMapData", spot_prices |-> xs, vols |-> vs,
         call_prices |-> [a \in 1 .. Len(vs) |->
                             [c \in 1 .. Len(xs) |-> round4(SpecCall(x(a, c)))]],
         put_prices |-> [a \in 1 .. Len(vs) |->
                            [c \in 1 .. Len(xs) |-> round4(SpecPut(x(a, c)))]]]

\* C23: determinism: generate_heatmap and generate_outputs_for_database
\* return axes, matrices and rows that are a function of the base input and
\* the grid parameters alone, whatever calls were made before on the same
\* service: two runs with equal arguments return identical results.
C23_Deterministic ==
    /\ HeatmapReturned => result = GridOf(base, params)
    /\ OutputsReturned =>
          /\ HeatMapData = GridOf(base, params)
          /\ result.calls = output_rows(base, GridOf(base, params)).calls
          /\ result.puts = output_rows(base, GridOf(base, params)).puts

\* a grid was returned by a service whose calculator had priced the base
\* case before
C23_Witness ==
    /\ HeatmapReturned
    /\ prices # NoPrices
    /\ Len(result.vols) = 2
    /\ Len(result.spot_prices) = 2
    /\ result.call_prices[1][1] # prices.result.call_price

\* C24: OptionInputs is immutable once constructed, so every OptionInputs
\* object that exists, at any point of any sequence of operations, satisfies
\* the validity invariant checked at construction.
C24_ObjectsStayValid ==
    /\ base # NoInputs => (base = ctor.args /\ ValidInputs(base))
    /\ prices # NoPrices => ValidInputs(prices.inputs)
    /\ greeks # NoGreeks => ValidInputs(greeks.inputs)

\* the cell the k-th iteration of the nested loop visits: rows of
\* volatilities outside, spot prices inside
CellOfCall(k) ==
    [a |-> ((k - 1) \div Len(spot_prices)) + 1, b |-> ((k - 1) % Len(spot_prices)) + 1]

\* C25: one run of generate_heatmap calls calculate exactly once for each
\* (volatility, spot) pair of the grid, vol_steps * spot_steps times in all,
\* never twice for the same cell and never for a point outside the grid.
C25_OneCallPerCell ==
    /\ pc \in {"loop", "done", "error"} =>
          /\ Len(calls) <= Len(vols) * Len(spot_prices)
          /\ \A k \in 1 .. Len(calls) :
                /\ CellOfCall(k).a \in 1 .. Len(vols)
                /\ CellOfCall(k).b \in 1 .. Len(spot_prices)
                /\ calls[k] = CellInputs(HeatMapData, CellOfCall(k).a, CellOfCall(k).b)
          /\ \A k, l \in 1 .. Len(calls) : CellOfCall(k) = CellOfCall(l) => k = l
    /\ pc = "loop" => Len(calls) = (i - 1) * Len(spot_prices) + (j - 1)
    /\ pc = "done" =>
          /\ Len(calls) = params.vol_steps * params.spot_steps
          /\ \A a \in 1 .. Len(vols), b \in 1 .. Len(spot_prices) :
                \E k \in 1 .. Len(calls) : CellOfCall(k) = [a |-> a, b |-> b]

C25_Witness ==
    /\ HeatmapReturned
    /\ Len(vols) = 2
    /\ Len(spot_prices) = 3
    /\ Len(calls) = 6

\* C26: the value written to cell (i, j) depends only on the base input,
\* vols[i] and spot_prices[j], not on any other cell or on the order of
\* evaluation: at every point of a run that evaluates the cells in any order
\* the evaluated cells hold the prices of their own inputs and the other
\* cells are untouched, and the matrices returned are those of the
\* row-by-row loop (GridOf, by C23).
C26_CellsIndependent ==
    /\ pc \in {"loop", "done"} =>
          \A a \in 1 .. Len(vols), b \in 1 .. Len(spot_prices) :
              LET p == calculate(CellInputs(HeatMapData, a, b))
              IN  IF <<a, b>> \in evaluated
                  THEN /\ call_prices[a][b] = p.call_price
                       /\ put_prices[a][b] = p.put_price
                  ELSE /\ call_prices[a][b] = 0
                       /\ put_prices[a][b] = 0
    /\ pc = "done" => result = GridOf(base, params)

\* a run that has returned after evaluating the last cell of the grid first
C26_Witness ==
    /\ HeatmapReturned
    /\ Len(vols) = 2
    /\ Len(spot_prices) = 2
    /\ Len(calls) = 4
    /\ calls[1] = CellInputs(HeatMapData, 2, 2)
    /\ calls[2] = CellInputs(HeatMapData, 1, 1)

\* the base stock price and the base volatility are the midpoints of the
\* grid bounds
BaseAtMidpoints ==
    /\ 2 * base.stock_price = params.min_spot + params.max_spot
    /\ 2 * base.volatility = params.min_vol + params.max_vol

\* the middle index of an axis with an odd number of points
CenterOf(axis) == (Len(axis) + 1) \div 2

ShockSum(row) == Abs(row.volatility_shock) + Abs(row.stock_price_shock)

\* shocks.index(min(shocks)): the first row with the smallest shock sum
MinShockRow(rows) ==
    CHOOSE k \in 1 .. Len(rows) :
        /\ \A l \in 1 .. Len(rows) : ShockSum(rows[k]) <= ShockSum(rows[l])
        /\ \A l \in 1 .. (k - 1) : ShockSum(rows[k]) < ShockSum(rows[l])

\* within one unit of the last digit kept
NearZero(x) == Abs(x) <= 1

\* the center cell holds the prices of the base input, and the center row
\* is the row with the smallest shock sum, its shocks near zero
CenterIsBase ==
    /\ call_prices[CenterOf(vols)][CenterOf(spot_prices)] = calculate(base).call_price
    /\ put_prices[CenterOf(vols)][CenterOf(spot_prices)] = calculate(base).put_price
    /\ OutputsReturned =>
          \A rows \in {result.calls, result.puts} :
              /\ MinShockRow(rows) = RowOf(CenterOf(vols), CenterOf(spot_prices))
              /\ NearZero(rows[MinShockRow(rows)].volatility_shock)
              /\ NearZero(rows[MinShockRow(rows)].stock_price_shock)

\* C27 as stated: for every odd step count
C27_AsStated ==
    ( /\ HeatmapReturned \/ OutputsReturned
      /\ BaseAtMidpoints
      /\ params.spot_steps % 2 = 1
      /\ params.vol_steps % 2 = 1 ) => CenterIsBase

\* C27: when the base stock price and the base volatility are the midpoints
\* of the grid bounds, the bounds of each axis differ and both step counts are
\* odd and at least 3, the center cell of generate_heatmap holds the prices
\* calculate returns for the base input, and in each list returned by
\* generate_outputs_for_database the row with the smallest |volatility_shock|
\* + |stock_price_shock| is the row of the center cell, with both shocks
\* (near) zero.
C27_CenterIsBase ==
    ( /\ HeatmapReturned \/ OutputsReturned
      /\ BaseAtMidpoints
      /\ params.min_spot # params.max_spot
      /\ params.min_vol # params.max_vol
      /\ params.spot_steps % 2 = 1
      /\ params.vol_steps % 2 = 1
      /\ params.spot_steps >= 3
      /\ params.vol_steps >= 3 ) => CenterIsBase

C27_Witness ==
    /\ OutputsReturned
    /\ BaseAtMidpoints
    /\ params.spot_steps = 3
    /\ params.vol_steps = 3
    /\ MinShockRow(result.calls) = 5
    /\ result.calls[5].option_price = calculate(base).call_price
    /\ result.calls[5].option_price # result.calls[4].option_price

NonDecreasing(axis) == \A k \in 1 .. (Len(axis) - 1) : axis[k] <= axis[k + 1]

\* C28: for every valid base input and every range percentage in [0, 1) the
\* parameters create_heatmap_params_from_inputs returns have min_spot <=
\* max_spot and min_vol <= max_vol, the volatility floor included, both grid
\* axes are non-decreasing and the base volatility lies in [min_vol, max_vol].
C28_ParamsOrdered ==
    ( /\ params_call.by = "create_heatmap_params_from_inputs"
      /\ ValidInputs(base)
      /\ params_call.spot_range_pct >= 0
      /\ params_call.spot_range_pct < SCALE
      /\ params_call.vol_range_pct >= 0
      /\ params_call.vol_range_pct < SCALE ) =>
        /\ params.min_spot <= params.max_spot
        /\ params.min_vol <= params.max_vol
        /\ NonDecreasing(linspace(params.min_spot, params.max_spot, params.spot_steps))
        /\ NonDecreasing(linspace(params.min_vol, params.max_vol, params.vol_steps))
        /\ params.min_vol <= base.volatility
        /\ base.volatility <= params.max_vol

\* every row of BlackScholesOutputs carries the key of a row of
\* BlackScholesInputs
ReferencesHold(d) ==
    \A a \in 1 .. Len(d.BlackScholesOutputs) :
        \E b \in 1 .. Len(d.BlackScholesInputs) :
            d.BlackScholesInputs[b].CalculationId = d.BlackScholesOutputs[a].CalculationId

\* C29: through any sequence of successful and failed save_calculation calls
\* and queries, every persisted output row references the CalculationId of a
\* persisted input row, and get_calculation_by_id and get_recent_calculations
\* leave the persisted rows unchanged.
C29_ReferentialIntegrity ==
    [][/\ ReferencesHold(db')
       /\ db_result'.kind \in {"get", "recent"} => db' = db]_vars

\* a query answered over the outputs of two saved calculations, after a save
\* that failed
C29_Witness ==
    /\ db_result.kind = "recent"
    /\ Len(db.BlackScholesInputs) = 2
    /\ \E a, b \in 1 .. Len(db.BlackScholesOutputs) :
          /\ db.BlackScholesOutputs[a].CalculationId = 1
          /\ db.BlackScholesOutputs[b].CalculationId = 2
    /\ \E k \in 1 .. Len(history) : history[k].raised # None
    /\ ReferencesHold(db)

=============================================================================
